---- MODULE Spec2Model ----
(***************************************************************************)
(* A model of redshift-mcp-server (src/src/index.ts): the four request     *)
(* handlers of the MCP server, the shared pg connection pool they borrow   *)
(* from, and the SQL engine sessions behind the pooled connections.        *)
(*                                                                         *)
(* Text is modelled as a sequence of tokens.  A token is either one of the *)
(* punctuation marks the code or the URL parser looks at (":", "//", "@",  *)
(* "/", the double quote) or a run of other characters that is never       *)
(* split (a word).                                                         *)
(***************************************************************************)
EXTENDS Integers, Sequences, FiniteSets, TLC

VARIABLES
    databaseUrl,   \* process.env.DATABASE_URL
    catalog,       \* engine: schema name -> set of its table names
    tableRows,     \* engine: the rows every table holds
    persisted,     \* engine: requests whose SQL left a committed effect
    session,       \* engine: per connection, the state of its transaction
    queue,         \* pg client: per connection, statements queued and not yet run
    idle,          \* pg pool: the connections available to pool.connect()
    req,           \* per request slot: the request being served
    pc,            \* per request slot: where its handler is suspended
    client,        \* per request slot: the connection it holds (0: none)
    loc,           \* per request slot: the handler's local variables
    resp,          \* per request slot: what the handler returned or threw
    sent,          \* per request slot: the statements it handed to client.query
    borrows,       \* per request slot: pool.connect() calls that resolved
    releases,      \* per request slot: client.release() calls
    listed         \* the client: the resources of the last listing it received

vars == <<databaseUrl, catalog, tableRows, persisted, session, queue, idle, req,
          pc, client, loc, resp, sent, borrows, releases, listed>>

-----------------------------------------------------------------------------
(* Bounds of the model. *)

NumRequests == 2
PoolSize == 1
MaxTableRows == 6

Reqs == 1..NumRequests
Conns == 1..PoolSize
NoClient == 0

-----------------------------------------------------------------------------
(* Tokens. *)

DQ == "\""
PCT22 == "%22"
SLASH == "/"
COLON == ":"
DSLASH == "//"
AT == "@"
\* A JavaScript undefined, and what a template literal makes of it.
Undefined == <<"\\undefined">>
UndefinedText == <<"undefined">>

SCHEMA_PATH == <<"schema">>
SAMPLE_PATH == <<"sample">>
STATISTICS_PATH == <<"statistics">>

RECURSIVE Flatten(_)
Flatten(ss) == IF ss = <<>> THEN <<>> ELSE Head(ss) \o Flatten(Tail(ss))

RECURSIVE IndexFrom(_, _, _)
\* The first index >= i of token t in s, or 0.
IndexFrom(s, t, i) ==
    IF i > Len(s) THEN 0
    ELSE IF s[i] = t THEN i
    ELSE IndexFrom(s, t, i + 1)

IndexOf(s, t) == IndexFrom(s, t, 1)

RECURSIVE SplitAcc(_, _, _)
SplitAcc(s, cur, acc) ==
    IF s = <<>> THEN Append(acc, cur)
    ELSE IF Head(s) = SLASH THEN SplitAcc(Tail(s), <<>>, Append(acc, cur))
    ELSE SplitAcc(Tail(s), Append(cur, Head(s)), acc)

\* String.prototype.split("/"): the pieces between the slashes, empty ones kept.
Split(s) == SplitAcc(s, <<>>, <<>>)

-----------------------------------------------------------------------------
(* The WHATWG URL class, for a scheme that is not special (redshift:).     *)

InvalidURL == [valid |-> FALSE, scheme |-> "", username |-> <<>>, password |-> <<>>,
               host |-> <<>>, authority |-> FALSE, opaque |-> FALSE, pathname |-> <<>>]

\* The path percent-encode set holds the double quote; the set used for an
\* opaque path does not.
PathEncode(s) == [i \in 1..Len(s) |-> IF s[i] = DQ THEN PCT22 ELSE s[i]]

\* new URL(s): scheme ":" then "//" authority path, or "/" path, or an opaque path.
ParseURL(s) ==
    IF Len(s) < 2 \/ s[2] # COLON \/ s[1] \in {COLON, DSLASH, SLASH, AT, DQ}
    THEN InvalidURL
    ELSE
      LET rest == SubSeq(s, 3, Len(s)) IN
      IF rest # <<>> /\ rest[1] = DSLASH THEN
        LET after == Tail(rest)
            slash == IndexOf(after, SLASH)
            auth  == IF slash = 0 THEN after ELSE SubSeq(after, 1, slash - 1)
            path  == IF slash = 0 THEN <<>> ELSE SubSeq(after, slash, Len(after))
            at    == IndexOf(auth, AT)
            cred  == IF at = 0 THEN <<>> ELSE SubSeq(auth, 1, at - 1)
            col   == IndexOf(cred, COLON)
        IN [valid |-> TRUE, scheme |-> s[1],
            username |-> IF col = 0 THEN cred ELSE SubSeq(cred, 1, col - 1),
            password |-> IF col = 0 THEN <<>> ELSE SubSeq(cred, col + 1, Len(cred)),
            host |-> SubSeq(auth, at + 1, Len(auth)),
            authority |-> TRUE, opaque |-> FALSE, pathname |-> PathEncode(path)]
      ELSE IF rest # <<>> /\ rest[1] = SLASH THEN
        [valid |-> TRUE, scheme |-> s[1], username |-> <<>>, password |-> <<>>,
         host |-> <<>>, authority |-> FALSE, opaque |-> FALSE,
         pathname |-> PathEncode(rest)]
      ELSE
        [valid |-> TRUE, scheme |-> s[1], username |-> <<>>, password |-> <<>>,
         host |-> <<>>, authority |-> FALSE, opaque |-> TRUE, pathname |-> rest]

RECURSIVE LastIndexOf(_, _, _)
LastIndexOf(s, t, i) ==
    IF i = 0 THEN 0 ELSE IF s[i] = t THEN i ELSE LastIndexOf(s, t, i - 1)

\* new URL(rel, base) for a relative reference that is a path: the base's
\* scheme, credentials and host, and the base's path with its last segment
\* replaced by the reference.  (The model's names hold no ".", "?", "#" or ":".)
ResolveURL(rel, base) ==
    IF ~base.valid \/ base.opaque THEN InvalidURL
    ELSE
      LET cut == LastIndexOf(base.pathname, SLASH, Len(base.pathname))
          dir == IF cut = 0 THEN <<SLASH>> ELSE SubSeq(base.pathname, 1, cut)
      IN [base EXCEPT !.pathname = dir \o PathEncode(rel)]

\* URL.href
Href(u) ==
    <<u.scheme, COLON>>
    \o (IF u.authority
        THEN <<DSLASH>>
             \o (IF u.username # <<>> \/ u.password # <<>>
                 THEN u.username
                      \o (IF u.password # <<>> THEN <<COLON>> \o u.password ELSE <<>>)
                      \o <<AT>>
                 ELSE <<>>)
             \o u.host
        ELSE <<>>)
    \o u.pathname

-----------------------------------------------------------------------------
(* Values the handlers pass around. *)

\* request.params.arguments: a key the caller left out reads as undefined.
NoArguments == [sql |-> Undefined, schema |-> Undefined, table |-> Undefined,
                pattern |-> Undefined]

\* request.params.arguments?.k
Arg(arguments, k) == arguments[k]

\* `${v}` in a template literal.
Str(v) == IF v = Undefined THEN UndefinedText ELSE v

NoAddress == [shape |-> "none", schema |-> <<>>, table |-> <<>>, kind |-> <<>>]
SchemaListing(s) == [shape |-> "listing", schema |-> s, table |-> <<>>, kind |-> <<>>]
TableResource(s, t, k) == [shape |-> "table", schema |-> s, table |-> t, kind |-> k]

NoRequest == [kind |-> "none", uri |-> <<>>, name |-> "", arguments |-> NoArguments,
              about |-> NoAddress]
ListRequest == [NoRequest EXCEPT !.kind = "list"]
ReadRequest(uri) == [NoRequest EXCEPT !.kind = "read", !.uri = uri]
CallRequest(name, arguments) ==
    [NoRequest EXCEPT !.kind = "call", !.name = name, !.arguments = arguments]

NoLoc == [branch |-> "", pathComponents |-> <<>>, schemaName |-> <<>>,
          tableName |-> <<>>, resourceType |-> <<>>, schemas |-> <<>>, i |-> 0,
          resources |-> <<>>, columns |-> <<>>, begin |-> ""]

NoResponse == [status |-> "none", isError |-> FALSE, message |-> "", rows |-> <<>>,
               resources |-> <<>>, columns |-> <<>>, statistics |-> <<>>]
\* The handler's promise rejects.
Thrown(message) == [NoResponse EXCEPT !.status = "thrown", !.message = message]
\* readResource's { contents: [{ uri, mimeType, text: JSON.stringify(rows) }] }
Contents(rows) == [NoResponse EXCEPT !.status = "returned", !.rows = rows]
\* callTool's { content: [{ type: "text", text }], isError }
ToolResult(rows) == [NoResponse EXCEPT !.status = "returned", !.rows = rows]
ToolError(message) ==
    [NoResponse EXCEPT !.status = "returned", !.isError = TRUE, !.message = message]

-----------------------------------------------------------------------------
(* The SQL engine: its catalog, its tables' rows, and its sessions. *)

Null == "\\null"
FieldNames == {"id", "email", "phone"}
FieldValues(f) ==
    CASE f = "id" -> {"1"}
      [] f = "email" -> {"a@b.c", Null}
      [] f = "phone" -> {"555", Null}

\* A row is a mapping from some field names to values.
Rows ==
    UNION { { row \in [F -> {"1", "a@b.c", "555", Null}] :
                \A f \in F : row[f] \in FieldValues(f) } : F \in SUBSET FieldNames }

\* What a table may hold: copies of one row, or two rows.
TableContents ==
    {<<>>}
    \cup { [i \in 1..n |-> row] : n \in 1..MaxTableRows, row \in Rows }
    \cup { <<r1, r2>> : r1 \in Rows, r2 \in Rows }

\* Text that closes an identifier's quote would be followed by, in an attack.
INJ == " LIMIT 0; DROP TABLE t; --"

\* ORDER BY: the names of the model in the engine's collation order.
NameOrder == << <<"s">>, <<"sample">>, <<"schema">>, <<"t">>, <<"t", DQ, "x">> >>
SortNames(S) == SelectSeq(NameOrder, LAMBDA n : n \in S)

SchemaNames == { <<"s">>, <<"schema">> }
TableNames == { <<"t">>, <<"t", DQ, "x">>, <<"sample">> }
SystemSchemas == { <<"pg_catalog">>, <<"information_schema">> }

\* lines 84-94: the schemas that are not system schemas, by name
SchemasQuery(cat) ==
    LET names == SortNames(DOMAIN cat \ SystemSchemas)
    IN [k \in 1..Len(names) |-> [schema_name |-> names[k]]]

\* lines 107-112 and 158-163: the tables of a schema, by name
TablesQuery(cat, schema) ==
    LET names == IF schema \in DOMAIN cat THEN SortNames(cat[schema]) ELSE <<>>
    IN [k \in 1..Len(names) |-> [table_name |-> names[k]]]

\* The fixed statements, each one token, and the values bound to $1, $2.
SQL_SCHEMAS == <<"SELECT nspname as schema_name FROM pg_namespace ...">>
SQL_TABLES == <<"SELECT table_name FROM SVV_TABLES WHERE table_schema = $1 ...">>
SQL_COLUMNS == <<"SELECT DISTINCT c.column_name, ... FROM SVV_COLUMNS c ...">>
SQL_STATISTICS == <<"SELECT database, schema, ... FROM SVV_TABLE_INFO ...">>
SQL_TABLE_STATS == <<"SELECT size as total_size_mb, ... FROM SVV_TABLE_INFO ...">>
SQL_FIND_COLUMN == <<"SELECT table_schema, ... WHERE column_name ILIKE $1 ...">>
SQL_BEGIN == <<"BEGIN TRANSACTION READ ONLY">>
SQL_ROLLBACK == <<"ROLLBACK">>

Statement(text, values, c) == [text |-> text, values |-> values, conn |-> c]

-----------------------------------------------------------------------------
(* The engine's sessions: what a statement does to a connection.           *)

ST_SELECT == "SELECT 1;"
ST_WRITE == "CREATE TABLE u (x int);"
ST_COMMIT == "COMMIT;"
ST_BAD == "SELEC;"

RECURSIVE RunScript(_, _)
\* A query text of several statements, run in order up to the first error.
\* state: "idle" (no transaction), "readonly" (inside BEGIN TRANSACTION READ
\* ONLY) or "aborted" (inside a failed transaction).  wrote: a write was
\* committed.  Outside a transaction a statement commits as the text ends.
RunScript(state, script) ==
    IF script = <<>> THEN [state |-> state, error |-> FALSE, wrote |-> FALSE]
    ELSE
      LET st == Head(script) IN
      CASE st = ST_COMMIT -> RunScript("idle", Tail(script))
        [] st = ST_SELECT ->
             IF state = "aborted"
             THEN [state |-> state, error |-> TRUE, wrote |-> FALSE]
             ELSE RunScript(state, Tail(script))
        [] st = ST_WRITE ->
             IF state = "idle"
             THEN LET rest == RunScript(state, Tail(script))
                  IN [rest EXCEPT !.wrote = ~rest.error]
             ELSE [state |-> "aborted", error |-> TRUE, wrote |-> FALSE]
        [] OTHER ->
             [state |-> IF state = "idle" THEN "idle" ELSE "aborted",
              error |-> TRUE, wrote |-> FALSE]

\* BEGIN TRANSACTION READ ONLY: inside a transaction it only warns.
BeginReadOnly(state) == IF state = "idle" THEN "readonly" ELSE state

\* A statement other than COMMIT or ROLLBACK fails in an aborted transaction.
Runnable(c) == session[c] # "aborted"

\* pg runs a client's statements in the order client.query() was called: one
\* called now runs once the statements queued before it have run.
QueueEmpty(c) == queue[c] = <<>>

-----------------------------------------------------------------------------
(* The sampling statement (lines 215-217) and how the engine reads it.     *)

LimitRows == 5
LimitClause == " LIMIT 5"

\* `SELECT * FROM "${schemaName}"."${tableName}" LIMIT 5`
SampleStatement(schemaName, tableName) ==
    <<"SELECT * FROM ", DQ>> \o schemaName \o <<DQ, ".", DQ>> \o tableName
        \o <<DQ, LimitClause>>

RECURSIVE ScanIdent(_, _, _)
\* The engine's lexer inside a quoted identifier, from token j: a doubled
\* quote is a quote of the name, a single one ends the identifier.
ScanIdent(s, j, acc) ==
    IF j > Len(s) THEN [ok |-> FALSE, name |-> acc, next |-> j]
    ELSE IF s[j] = DQ THEN
        IF j + 1 <= Len(s) /\ s[j + 1] = DQ
        THEN ScanIdent(s, j + 2, Append(acc, DQ))
        ELSE [ok |-> TRUE, name |-> acc, next |-> j + 1]
    ELSE ScanIdent(s, j + 1, Append(acc, s[j]))

NotOneSelect == [ok |-> FALSE, schema |-> <<>>, table |-> <<>>, limit |-> 0]

\* The statement read as SELECT * FROM <identifier>.<identifier> LIMIT 5 and
\* nothing else.
ParseSample(stmt) ==
    IF Len(stmt) < 2 \/ stmt[1] # "SELECT * FROM " \/ stmt[2] # DQ THEN NotOneSelect
    ELSE
      LET a == ScanIdent(stmt, 3, <<>>) IN
      IF ~a.ok \/ a.next + 1 > Len(stmt) THEN NotOneSelect
      ELSE IF stmt[a.next] # "." \/ stmt[a.next + 1] # DQ THEN NotOneSelect
      ELSE
        LET b == ScanIdent(stmt, a.next + 2, <<>>) IN
        IF ~b.ok \/ b.next # Len(stmt) THEN NotOneSelect
        ELSE IF stmt[b.next] # LimitClause THEN NotOneSelect
        ELSE [ok |-> TRUE, schema |-> a.name, table |-> b.name, limit |-> LimitRows]

\* The engine's answer to the sampling statement: the first rows of the table
\* it names, or an error (no such table, an empty identifier, other text).
SampleQuery(cat, rows, stmt) ==
    LET p == ParseSample(stmt) IN
    IF p.ok /\ p.schema \in DOMAIN cat /\ p.table \in cat[p.schema]
    THEN [error |-> FALSE,
          rows |-> SubSeq(rows, 1, IF Len(rows) < p.limit THEN Len(rows) ELSE p.limit)]
    ELSE [error |-> TRUE, rows |-> <<>>]

-----------------------------------------------------------------------------
(* Pieces of the handlers that are pure.                                   *)

\* line 65
resourceBaseUrl == ParseURL(databaseUrl)

Resource(rel, name, about) ==
    [uri |-> Href(ResolveURL(rel, resourceBaseUrl)), mimeType |-> "application/json",
     name |-> name, about |-> about]

\* lines 100-104.  about: the address the handler emits the entry for.
SchemaResource(s) ==
    Resource(SCHEMA_PATH \o <<SLASH>> \o s, <<"Schema: ">> \o s, SchemaListing(s))

TableEntry(s, t, kind, label) ==
    Resource(s \o <<SLASH>> \o t \o <<SLASH>> \o kind,
             <<label>> \o s \o <<".">> \o t, TableResource(s, t, kind))

\* lines 115-136
TableEntries(s, t) ==
    << TableEntry(s, t, SCHEMA_PATH, "Table Schema: "),
       TableEntry(s, t, SAMPLE_PATH, "Sample Data: "),
       TableEntry(s, t, STATISTICS_PATH, "Statistics: ") >>

RECURSIVE TablesEntries(_, _)
TablesEntries(s, tables) ==
    IF tables = <<>> THEN <<>>
    ELSE TableEntries(s, Head(tables).table_name) \o TablesEntries(s, Tail(tables))

\* A faulty variant of the redaction: only a value that is set is replaced.
RedactSetValues(row) ==
    [f \in DOMAIN row \cup {"email", "phone"} |->
        IF f \in DOMAIN row /\ row[f] = Null THEN Null
        ELSE IF f \in {"email", "phone"} THEN "REDACTED" ELSE row[f]]

\* lines 219-224
Redact(row) ==
    [f \in DOMAIN row \cup {"email", "phone"} |->
        IF f \in {"email", "phone"} THEN "REDACTED" ELSE row[f]]

RedactRows(rows) == [k \in 1..Len(rows) |-> Redact(rows[k])]

-----------------------------------------------------------------------------
(* The state after start-up (lines 45-72): a pool of idle connections, no  *)
(* request being served.                                                   *)

InitWith(url, cat, rows) ==
    /\ databaseUrl = url
    /\ catalog = cat
    /\ tableRows = rows
    /\ persisted = {}
    /\ session = [c \in Conns |-> "idle"]
    /\ queue = [c \in Conns |-> <<>>]
    /\ idle = Conns
    /\ req = [r \in Reqs |-> NoRequest]
    /\ pc = [r \in Reqs |-> "idle"]
    /\ client = [r \in Reqs |-> NoClient]
    /\ loc = [r \in Reqs |-> NoLoc]
    /\ resp = [r \in Reqs |-> NoResponse]
    /\ sent = [r \in Reqs |-> <<>>]
    /\ borrows = [r \in Reqs |-> 0]
    /\ releases = [r \in Reqs |-> 0]
    /\ listed = <<>>

config == <<databaseUrl, catalog, tableRows>>

DatabaseUrl(user, password) ==
    <<"redshift", COLON, DSLASH>> \o user \o <<COLON>> \o password
        \o <<AT, "host:5439", SLASH, "db">>

\* The transport hands a request to its handler.  (The slots are alike: a
\* request takes the lowest free one.)
Arrive(r, request) ==
    /\ pc[r] = "idle"
    /\ \A q \in 1..(r - 1) : pc[q] # "idle"
    /\ req' = [req EXCEPT ![r] = request]
    /\ pc' = [pc EXCEPT ![r] = IF request.kind = "read" THEN "start" ELSE "connect"]
    /\ UNCHANGED <<config, persisted, session, queue, idle, client, loc, resp, sent,
                   borrows, releases, listed>>

\* No other request is being served.
Quiet(r) == \A q \in Reqs \ {r} : pc[q] = "idle"

\* The response has gone out and the slot serves the next request.
Retire(r) ==
    /\ pc[r] = "done"
    /\ \A c \in Conns : \A k \in 1..Len(queue[c]) : queue[c][k].by # r
    /\ req' = [req EXCEPT ![r] = NoRequest]
    /\ pc' = [pc EXCEPT ![r] = "idle"]
    /\ loc' = [loc EXCEPT ![r] = NoLoc]
    /\ resp' = [resp EXCEPT ![r] = NoResponse]
    /\ sent' = [sent EXCEPT ![r] = <<>>]
    /\ borrows' = [borrows EXCEPT ![r] = 0]
    /\ releases' = [releases EXCEPT ![r] = 0]
    /\ persisted' = persisted \ {r}
    /\ UNCHANGED <<config, session, queue, idle, client, listed>>

-----------------------------------------------------------------------------
(* The pool, and the ways a handler ends.                                  *)

\* await pool.connect() resolves with connection c.
Borrow(r, c) ==
    /\ c \in idle
    /\ idle' = idle \ {c}
    /\ client' = [client EXCEPT ![r] = c]
    /\ borrows' = [borrows EXCEPT ![r] = @ + 1]

\* await pool.connect() resolves and the handler ends before its next await:
\* finally { client.release() } runs in the same turn.
BorrowAndRelease(r, c) ==
    /\ c \in idle
    /\ borrows' = [borrows EXCEPT ![r] = @ + 1]
    /\ releases' = [releases EXCEPT ![r] = @ + 1]
    /\ UNCHANGED <<idle, client>>

\* client.query(text, values)
Send(r, c, text, values) ==
    sent' = [sent EXCEPT ![r] = Append(@, Statement(text, values, c))]

Respond(r, response) ==
    /\ resp' = [resp EXCEPT ![r] = response]
    /\ pc' = [pc EXCEPT ![r] = "done"]

\* return ...; finally { client.release() }
ReturnAndRelease(r, response) ==
    /\ Respond(r, response)
    /\ idle' = idle \cup {client[r]}
    /\ client' = [client EXCEPT ![r] = NoClient]
    /\ releases' = [releases EXCEPT ![r] = @ + 1]

\* A faulty variant of the exit: the release sits after the await, not in a
\* finally, and a rejection skips it.
ThrowWithoutRelease(r, message) ==
    /\ Respond(r, Thrown(message))
    /\ UNCHANGED <<idle, client, releases>>

\* an awaited client.query() rejects; finally { client.release() }
ThrowAndRelease(r, message) == ReturnAndRelease(r, Thrown(message))

\* lines 81, 155, 185, 312: await pool.connect() rejects, outside any try.
ConnectFails(r) ==
    /\ pc[r] = "connect"
    /\ Respond(r, Thrown("connect"))
    /\ UNCHANGED <<config, persisted, session, queue, idle, req, client, loc, sent,
                   borrows, releases, listed>>

-----------------------------------------------------------------------------
(* ListResourcesRequestSchema handler, lines 80-145.                       *)

Listing(resources) ==
    [NoResponse EXCEPT !.status = "returned", !.resources = resources]

\* line 81 resolves; lines 84-94 are sent.
ListConnected(r) ==
    /\ pc[r] = "connect"
    /\ req[r].kind = "list"
    /\ \E c \in idle :
        /\ Borrow(r, c)
        /\ Send(r, c, SQL_SCHEMAS, <<>>)
    /\ pc' = [pc EXCEPT ![r] = "list_schemas"]
    /\ UNCHANGED <<config, persisted, session, queue, req, loc, resp, releases, listed>>

\* The schemas arrive: lines 96-112 up to the await of the first schema's tables.
ListSchemas(r) ==
    /\ pc[r] = "list_schemas"
    /\ QueueEmpty(client[r])
    /\ \/ /\ Runnable(client[r])
          /\ LET rows == SchemasQuery(catalog) IN
             IF rows = <<>>
             THEN /\ ReturnAndRelease(r, Listing(<<>>))
                  /\ listed' = <<>>
                  /\ UNCHANGED <<loc, sent>>
             ELSE /\ loc' = [loc EXCEPT ![r] =
                        [@ EXCEPT !.schemas = rows, !.i = 1,
                                  !.resources = <<SchemaResource(rows[1].schema_name)>>]]
                  /\ Send(r, client[r], SQL_TABLES, <<rows[1].schema_name>>)
                  /\ pc' = [pc EXCEPT ![r] = "list_tables"]
                  /\ UNCHANGED <<idle, client, resp, releases, listed>>
       \/ /\ ThrowAndRelease(r, "engine")
          /\ UNCHANGED <<loc, sent, listed>>
    /\ UNCHANGED <<config, persisted, session, queue, req, borrows>>

\* The tables of schema i arrive: lines 115-136, then the next schema (lines
\* 99-112) or the return (lines 139-143).
ListTables(r) ==
    /\ pc[r] = "list_tables"
    /\ QueueEmpty(client[r])
    /\ \/ /\ Runnable(client[r])
          /\ LET l == loc[r]
                 s == l.schemas[l.i].schema_name
                 resources == l.resources \o TablesEntries(s, TablesQuery(catalog, s))
             IN
             IF l.i = Len(l.schemas)
             THEN /\ ReturnAndRelease(r, Listing(resources))
                  /\ listed' = resources
                  /\ loc' = [loc EXCEPT ![r] = [@ EXCEPT !.resources = resources]]
                  /\ UNCHANGED sent
             ELSE LET next == l.schemas[l.i + 1].schema_name IN
                  /\ loc' = [loc EXCEPT ![r] =
                        [@ EXCEPT !.i = l.i + 1,
                                  !.resources = Append(resources, SchemaResource(next))]]
                  /\ Send(r, client[r], SQL_TABLES, <<next>>)
                  /\ UNCHANGED <<idle, client, resp, pc, releases, listed>>
       \/ /\ ThrowAndRelease(r, "engine")
          /\ UNCHANGED <<loc, sent, listed>>
    /\ UNCHANGED <<config, persisted, session, queue, req, borrows>>

-----------------------------------------------------------------------------
(* The engine's answers to the metadata statements.                        *)

TableExists(cat, schema, table) == schema \in DOMAIN cat /\ table \in cat[schema]

ColumnRow == [column_name |-> <<"email">>, data_type |-> "character varying",
              is_nullable |-> "YES", ordinal_position |-> "1",
              is_distkey |-> "false", is_sortkey |-> "false"]

\* lines 191-210 and 349-368
ColumnsQuery(cat, schema, table) ==
    IF TableExists(cat, schema, table) THEN <<ColumnRow>> ELSE <<>>

TableInfoRow(schema, table) ==
    [database |-> "db", schema |-> schema, table_id |-> "100", table_name |-> table,
     total_size_mb |-> "12", percent_used |-> "0.01", row_count |-> "3",
     encoded |-> "Y", diststyle |-> "EVEN", sortkey1 |-> "", max_varchar |-> "256",
     create_time |-> "2024-01-01"]

\* lines 228-245: SVV_TABLE_INFO has a row for a table that holds rows
StatisticsQuery(cat, rows, schema, table) ==
    IF TableExists(cat, schema, table) /\ rows # <<>>
    THEN <<TableInfoRow(schema, table)>> ELSE <<>>

\* lines 371-379: size, row count and creation time of the same row
TableStatsQuery(cat, rows, schema, table) ==
    IF TableExists(cat, schema, table) /\ rows # <<>>
    THEN << [total_size_mb |-> "12", row_count |-> "3", create_time |-> "2024-01-01"] >>
    ELSE <<>>

\* lines 405-414: the columns whose name is LIKE the pattern, here equal to
\* what stands between the two "%".
FindColumnQuery(cat, like) ==
    IF like = <<"%">> \o ColumnRow.column_name \o <<"%">> \/ like = <<"%", "%">>
    THEN LET schemas == SortNames(DOMAIN cat) IN
         Flatten([k \in 1..Len(schemas) |->
            LET tables == SortNames(cat[schemas[k]]) IN
            [j \in 1..Len(tables) |->
                [table_schema |-> schemas[k], table_name |-> tables[j],
                 column_name |-> ColumnRow.column_name,
                 data_type |-> ColumnRow.data_type]]])
    ELSE <<>>

-----------------------------------------------------------------------------
(* ReadResourceRequestSchema handler, lines 148-266.                       *)

\* lines 149-154, 180-185, 265: up to the await of pool.connect(), or a throw.
ReadResource(r) ==
    /\ pc[r] = "start"
    /\ LET resourceUrl == ParseURL(req[r].uri)
           pathComponents == Split(resourceUrl.pathname)
       IN
       IF ~resourceUrl.valid
       THEN /\ Respond(r, Thrown("Invalid URL"))
            /\ UNCHANGED loc
       ELSE IF Len(pathComponents) = 2 /\ pathComponents[1] = SCHEMA_PATH
       THEN /\ loc' = [loc EXCEPT ![r] =
                  [@ EXCEPT !.branch = "listing", !.pathComponents = pathComponents,
                            !.schemaName = pathComponents[2]]]
            /\ pc' = [pc EXCEPT ![r] = "connect"]
            /\ UNCHANGED resp
       ELSE IF Len(pathComponents) = 3
       THEN /\ loc' = [loc EXCEPT ![r] =
                  [@ EXCEPT !.branch = "table", !.pathComponents = pathComponents,
                            !.schemaName = pathComponents[1],
                            !.tableName = pathComponents[2],
                            !.resourceType = pathComponents[3]]]
            /\ pc' = [pc EXCEPT ![r] = "connect"]
            /\ UNCHANGED resp
       ELSE /\ Respond(r, Thrown("Invalid resource URI"))
            /\ loc' = [loc EXCEPT ![r] = [@ EXCEPT !.pathComponents = pathComponents]]
    /\ UNCHANGED <<config, persisted, session, queue, idle, req, client, sent,
                   borrows, releases, listed>>

\* line 155 or 185 resolves: the statement of the branch is sent, or the
\* resource type is unknown (line 248) and the finally releases.
ReadConnected(r) ==
    /\ pc[r] = "connect"
    /\ req[r].kind = "read"
    /\ LET l == loc[r] IN
       \E c \in idle :
         IF l.branch = "listing"
         THEN /\ Borrow(r, c)
              /\ Send(r, c, SQL_TABLES, <<l.schemaName>>)
              /\ pc' = [pc EXCEPT ![r] = "read_query"]
              /\ UNCHANGED <<resp, releases>>
         ELSE IF l.resourceType = SCHEMA_PATH
         THEN /\ Borrow(r, c)
              /\ Send(r, c, SQL_COLUMNS, <<l.schemaName, l.tableName>>)
              /\ pc' = [pc EXCEPT ![r] = "read_query"]
              /\ UNCHANGED <<resp, releases>>
         ELSE IF l.resourceType = SAMPLE_PATH
         THEN /\ Borrow(r, c)
              /\ Send(r, c, SampleStatement(l.schemaName, l.tableName), <<>>)
              /\ pc' = [pc EXCEPT ![r] = "read_query"]
              /\ UNCHANGED <<resp, releases>>
         ELSE IF l.resourceType = STATISTICS_PATH
         THEN /\ Borrow(r, c)
              /\ Send(r, c, SQL_STATISTICS, <<l.schemaName, l.tableName>>)
              /\ pc' = [pc EXCEPT ![r] = "read_query"]
              /\ UNCHANGED <<resp, releases>>
         ELSE /\ BorrowAndRelease(r, c)
              /\ Respond(r, Thrown("Unknown resource type"))
              /\ UNCHANGED sent
    /\ UNCHANGED <<config, persisted, session, queue, req, loc, listed>>

\* The rows the engine answers the statement sent at line 158, 191, 215 or 228.
ReadAnswer(r) ==
    LET l == loc[r] IN
    IF l.branch = "listing"
    THEN [error |-> FALSE, rows |-> TablesQuery(catalog, l.schemaName)]
    ELSE IF l.resourceType = SCHEMA_PATH
    THEN [error |-> FALSE, rows |-> ColumnsQuery(catalog, l.schemaName, l.tableName)]
    ELSE IF l.resourceType = SAMPLE_PATH
    THEN SampleQuery(catalog, tableRows, sent[r][Len(sent[r])].text)
    ELSE [error |-> FALSE,
          rows |-> StatisticsQuery(catalog, tableRows, l.schemaName, l.tableName)]

\* The rows arrive (lines 165-173, or 218-224 and 251-259), or the query
\* rejects; either way the finally releases (lines 174-176, 260-262).
ReadQuery(r) ==
    /\ pc[r] = "read_query"
    /\ QueueEmpty(client[r])
    /\ \/ /\ Runnable(client[r])
          /\ ~ReadAnswer(r).error
          /\ ReturnAndRelease(r,
                Contents(IF loc[r].branch = "table" /\ loc[r].resourceType = SAMPLE_PATH
                         THEN RedactRows(ReadAnswer(r).rows)
                         ELSE ReadAnswer(r).rows))
       \/ ThrowAndRelease(r, "engine")
    /\ UNCHANGED <<config, persisted, session, queue, req, loc, sent, borrows, listed>>

-----------------------------------------------------------------------------
(* CallToolRequestSchema handler, lines 311-437.                           *)

\* line 385: statsResult.rows || [placeholder].  An array is truthy, also an
\* empty one.
Truthy(rows) == TRUE

Placeholder ==
    [total_size_mb |-> "Unknown", row_count |-> "Unknown", create_time |-> "Unknown"]

StatisticsOrPlaceholder(rows) == IF Truthy(rows) THEN rows ELSE <<Placeholder>>

\* lines 381-391
TableDescription(columns, stats) ==
    [NoResponse EXCEPT !.status = "returned", !.columns = columns,
                       !.statistics = StatisticsOrPlaceholder(stats)]

\* lines 269-308: the "required" list of each tool's inputSchema
RequiredArguments(name) ==
    CASE name = "query" -> {"sql"}
      [] name = "describe_table" -> {"schema", "table"}
      [] name = "find_column" -> {"pattern"}
      [] OTHER -> {}

\* lines 334-338: client.query("ROLLBACK") is called and not awaited.
EnqueueRollback(r, c) ==
    /\ queue' = [queue EXCEPT ![c] = Append(@, [text |-> SQL_ROLLBACK, by |-> r])]
    /\ Send(r, c, SQL_ROLLBACK, <<>>)

\* line 312 resolves; the tool's first statement is sent, or the tool is
\* unknown (lines 428-433) and the finally releases.
CallConnected(r) ==
    /\ pc[r] = "connect"
    /\ req[r].kind = "call"
    /\ LET args == req[r].arguments IN
       \E c \in idle :
         IF req[r].name = "query"
         THEN /\ Borrow(r, c)
              /\ Send(r, c, SQL_BEGIN, <<>>)
              /\ pc' = [pc EXCEPT ![r] = "query_begin"]
              /\ UNCHANGED <<resp, releases>>
         ELSE IF req[r].name = "describe_table"
         THEN /\ Borrow(r, c)
              /\ Send(r, c, SQL_COLUMNS, <<Arg(args, "schema"), Arg(args, "table")>>)
              /\ pc' = [pc EXCEPT ![r] = "describe_columns"]
              /\ UNCHANGED <<resp, releases>>
         ELSE IF req[r].name = "find_column"
         THEN /\ Borrow(r, c)
              /\ Send(r, c, SQL_FIND_COLUMN,
                      << <<"%">> \o Str(Arg(args, "pattern")) \o <<"%">> >>)
              /\ pc' = [pc EXCEPT ![r] = "find_column"]
              /\ UNCHANGED <<resp, releases>>
         ELSE /\ BorrowAndRelease(r, c)
              /\ Respond(r, ToolError("Unknown tool"))
              /\ UNCHANGED sent
    /\ UNCHANGED <<config, persisted, session, queue, req, loc, listed>>

\* How the await of line 321 settled, kept with the handler's locals.
Began(r, outcome) == loc' = [loc EXCEPT ![r] = [@ EXCEPT !.begin = outcome]]

\* A faulty variant of the query branch: BEGIN is not awaited inside the try,
\* and the caller's text is sent whether BEGIN resolves or rejects.
QueryBeginNotAwaited(r) ==
    /\ pc[r] = "query_begin"
    /\ QueueEmpty(client[r])
    /\ LET c == client[r]
           sql == Arg(req[r].arguments, "sql")
       IN
       /\ \/ /\ Runnable(c)
             /\ session' = [session EXCEPT ![c] = BeginReadOnly(@)]
             /\ Began(r, "resolved")
          \/ /\ UNCHANGED session
             /\ Began(r, "rejected")
       /\ IF sql = Undefined
          THEN /\ EnqueueRollback(r, c)
               /\ ReturnAndRelease(r, ToolError("Error executing query"))
          ELSE /\ Send(r, c, sql, <<>>)
               /\ pc' = [pc EXCEPT ![r] = "query_sql"]
               /\ UNCHANGED <<queue, idle, client, resp, releases>>
    /\ UNCHANGED <<config, persisted, req, borrows, listed>>

\* line 321 settles.  Resolved: line 322 sends the caller's text, or throws
\* at once for a text that is undefined.  Either throw is caught (lines
\* 328-332); the finally queues the ROLLBACK and the outer finally releases.
QueryBegin(r) ==
    /\ pc[r] = "query_begin"
    /\ QueueEmpty(client[r])
    /\ LET c == client[r]
           sql == Arg(req[r].arguments, "sql")
       IN
       \/ /\ Runnable(c)
          /\ session' = [session EXCEPT ![c] = BeginReadOnly(@)]
          /\ Began(r, "resolved")
          /\ IF sql = Undefined
             THEN /\ EnqueueRollback(r, c)
                  /\ ReturnAndRelease(r, ToolError("Error executing query"))
             ELSE /\ Send(r, c, sql, <<>>)
                  /\ pc' = [pc EXCEPT ![r] = "query_sql"]
                  /\ UNCHANGED <<queue, idle, client, resp, releases>>
       \/ /\ EnqueueRollback(r, c)
          /\ ReturnAndRelease(r, ToolError("Error executing query"))
          /\ Began(r, "rejected")
          /\ UNCHANGED session
    /\ UNCHANGED <<config, persisted, req, borrows, listed>>

\* line 322 settles: the result (lines 324-327) or the error (lines 328-332);
\* then the finally of lines 333-339 and the release of line 435.
QuerySql(r) ==
    /\ pc[r] = "query_sql"
    /\ QueueEmpty(client[r])
    /\ LET c == client[r]
           out == RunScript(session[c], req[r].arguments["sql"])
       IN
       \/ /\ session' = [session EXCEPT ![c] = out.state]
          /\ persisted' = IF out.wrote THEN persisted \cup {r} ELSE persisted
          /\ EnqueueRollback(r, c)
          /\ ReturnAndRelease(r, IF out.error THEN ToolError("Error executing query")
                                 ELSE ToolResult(<<>>))
       \/ /\ EnqueueRollback(r, c)
          /\ ReturnAndRelease(r, ToolError("Error executing query"))
          /\ UNCHANGED <<session, persisted>>
    /\ UNCHANGED <<config, req, loc, borrows, listed>>

\* The engine runs the ROLLBACK queued on connection c; its failure is only
\* logged (lines 336-338).
RollbackRuns(c) ==
    /\ queue[c] # <<>>
    /\ queue' = [queue EXCEPT ![c] = Tail(@)]
    /\ \/ session' = [session EXCEPT ![c] = "idle"]
       \/ UNCHANGED session
    /\ UNCHANGED <<config, persisted, idle, req, pc, client, loc, resp, sent,
                   borrows, releases, listed>>

\* line 349 settles: line 371 is sent, or the error is returned (lines 392-397).
DescribeColumns(r) ==
    /\ pc[r] = "describe_columns"
    /\ QueueEmpty(client[r])
    /\ LET args == req[r].arguments IN
       \/ /\ Runnable(client[r])
          /\ loc' = [loc EXCEPT ![r] =
                [@ EXCEPT !.columns =
                    ColumnsQuery(catalog, Arg(args, "schema"), Arg(args, "table"))]]
          /\ Send(r, client[r], SQL_TABLE_STATS,
                  <<Arg(args, "schema"), Arg(args, "table")>>)
          /\ pc' = [pc EXCEPT ![r] = "describe_stats"]
          /\ UNCHANGED <<idle, client, resp, releases>>
       \/ /\ ReturnAndRelease(r, ToolError("Error describing table"))
          /\ UNCHANGED <<loc, sent>>
    /\ UNCHANGED <<config, persisted, session, queue, req, borrows, listed>>

\* line 371 settles: the description (lines 381-391) or the error.
DescribeStats(r) ==
    /\ pc[r] = "describe_stats"
    /\ QueueEmpty(client[r])
    /\ LET args == req[r].arguments IN
       \/ /\ Runnable(client[r])
          /\ ReturnAndRelease(r,
                TableDescription(loc[r].columns,
                    TableStatsQuery(catalog, tableRows,
                                    Arg(args, "schema"), Arg(args, "table"))))
       \/ ReturnAndRelease(r, ToolError("Error describing table"))
    /\ UNCHANGED <<config, persisted, session, queue, req, loc, sent, borrows, listed>>

\* line 405 settles: the rows (lines 416-419) or the error (lines 420-425).
FindColumn(r) ==
    /\ pc[r] = "find_column"
    /\ QueueEmpty(client[r])
    /\ \/ /\ Runnable(client[r])
          /\ ReturnAndRelease(r,
                ToolResult(FindColumnQuery(catalog, sent[r][1].values[1])))
       \/ ReturnAndRelease(r, ToolError("Error finding columns"))
    /\ UNCHANGED <<config, persisted, session, queue, req, loc, sent, borrows, listed>>

-----------------------------------------------------------------------------
(* The requests a client sends.                                            *)

MaxDepth == 4

SqlTexts == { <<ST_SELECT>>, <<ST_WRITE>>, <<ST_COMMIT, ST_WRITE>> }

CallRequests ==
    { CallRequest("query", a) :
        a \in {NoArguments} \cup { [NoArguments EXCEPT !.sql = t] : t \in SqlTexts } }
    \cup { CallRequest("describe_table", a) :
        a \in { [NoArguments EXCEPT !.table = <<"t">>],
                [NoArguments EXCEPT !.schema = <<"s">>, !.table = <<"t">>],
                [NoArguments EXCEPT !.schema = <<"s">>, !.table = <<"u">>] } }
    \cup { CallRequest("find_column", a) :
        a \in { NoArguments, [NoArguments EXCEPT !.pattern = <<"email">>] } }
    \cup { CallRequest("drop_table", NoArguments) }

Hierarchical == <<"redshift", COLON, DSLASH, "host">>
WithCredentials == <<"redshift", COLON, DSLASH, "alice", COLON, "pw1", AT, "host">>
Opaque == <<"redshift", COLON>>

RECURSIVE Join(_)
\* The segments with a "/" before each.
Join(segs) == IF segs = <<>> THEN <<>> ELSE <<SLASH>> \o Head(segs) \o Join(Tail(segs))

\* A URI of the given prefix and path segments.
Uri(prefix, segs) ==
    prefix \o (IF prefix = Opaque /\ segs # <<>> THEN Tail(Join(segs)) ELSE Join(segs))

Segments == { SCHEMA_PATH, SAMPLE_PATH, STATISTICS_PATH, <<"s">>, <<"t">>,
              <<"t", DQ, INJ>>, <<>> }

Paths == UNION { [1..n -> Segments] : n \in 0..MaxDepth }

\* With or without an authority, or with neither "//" nor a scheme.  (A path
\* that starts with two empty segments would spell an authority.)
ReadUris ==
    { Uri(prefix, segs) : prefix \in {Hierarchical, WithCredentials}, segs \in Paths }
    \cup { Uri(Opaque, segs) :
              segs \in { p \in Paths : Len(p) < 2 \/ p[1] # <<>> \/ p[2] # <<>> } }
    \cup { <<"host">> }

SomeReadUris ==
    { Uri(Hierarchical, << <<"s">>, <<"t">>, SAMPLE_PATH >>),
      Uri(Opaque, << <<"s">>, <<"t">>, SAMPLE_PATH >>),
      Uri(Opaque, << <<"s">>, <<"t">>, <<"rows">> >>) }

SampleUris ==
    { Uri(Opaque, << <<"s">>, <<"t">>, SAMPLE_PATH >>),
      Uri(Opaque, << <<"s">>, <<"u">>, SAMPLE_PATH >>),
      Uri(Hierarchical, << <<"t">>, SAMPLE_PATH >>),
      Uri(Opaque, << <<"s">>, <<"t">>, STATISTICS_PATH >>) }

Requests ==
    {ListRequest} \cup { ReadRequest(u) : u \in SomeReadUris } \cup CallRequests

\* The client reads a resource of the last listing it received.
ReadListed(r) ==
    \E k \in 1..Len(listed) :
        Arrive(r, [ReadRequest(listed[k].uri) EXCEPT !.about = listed[k].about])

-----------------------------------------------------------------------------
(* The specifications.                                                     *)

OneTable == [s \in { <<"s">> } |-> { <<"t">> }]
OneRow == << [id |-> "1", email |-> "a@b.c"] >>

DatabaseUrls ==
    { DatabaseUrl(<<"alice">>, <<"pw1">>), DatabaseUrl(<<"bob">>, <<"pw2">>),
      <<"redshift", COLON, DSLASH, "host:5439", SLASH, "db">> }

Catalogs ==
    UNION { [S -> SUBSET { <<"t">>, <<"t", DQ, "x">> }] :
              S \in SUBSET (SchemaNames \cup { <<"pg_catalog">> }) }

ListStep(r) == ListConnected(r) \/ ListSchemas(r) \/ ListTables(r)
ReadStep(r) == ReadResource(r) \/ ReadConnected(r) \/ ReadQuery(r)
CallStep(r) ==
    \/ CallConnected(r) \/ QueryBegin(r) \/ QuerySql(r)
    \/ DescribeColumns(r) \/ DescribeStats(r) \/ FindColumn(r)

\* Requests of every kind, served concurrently.
Init == InitWith(DatabaseUrl(<<"alice">>, <<"pw1">>), OneTable, OneRow)

Next ==
    \/ \E r \in Reqs :
        \/ /\ pc[r] = "idle"
           /\ \E request \in Requests : Arrive(r, request)
        \/ Retire(r)
        \/ ConnectFails(r)
        \/ ListStep(r)
        \/ ReadStep(r)
        \/ CallStep(r)
    \/ \E c \in Conns : RollbackRuns(c)

Spec == Init /\ [][Next]_vars

\* A client that lists the resources of any catalog and reads what was listed.
InitList ==
    \E url \in DatabaseUrls, cat \in Catalogs : InitWith(url, cat, OneRow)

NextList ==
    \E r \in Reqs :
        \/ Arrive(r, ListRequest)
        \/ ReadListed(r)
        \/ Retire(r)
        \/ ConnectFails(r)
        \/ ListStep(r)
        \/ ReadStep(r)

SpecList == InitList /\ [][NextList]_vars

\* A client that reads any URI, one request at a time.
NextRead ==
    \E r \in Reqs :
        \/ /\ pc[r] = "idle"
           /\ Quiet(r)
           /\ \E u \in ReadUris : Arrive(r, ReadRequest(u))
        \/ Retire(r)
        \/ ConnectFails(r)
        \/ ReadStep(r)

SpecRead == Init /\ [][NextRead]_vars

\* A client that samples tables of any contents, one request at a time.
InitSample ==
    \E rows \in TableContents :
        InitWith(DatabaseUrl(<<"alice">>, <<"pw1">>), OneTable, rows)

NextSample ==
    \E r \in Reqs :
        \/ /\ pc[r] = "idle"
           /\ Quiet(r)
           /\ \E u \in SampleUris : Arrive(r, ReadRequest(u))
        \/ Retire(r)
        \/ ConnectFails(r)
        \/ ReadStep(r)

SpecSample == InitSample /\ [][NextSample]_vars

-----------------------------------------------------------------------------
(* The claims.                                                             *)

Done(r) == pc[r] = "done"
IsCall(r, name) == req[r].kind = "call" /\ req[r].name = name
IsRead(r) == req[r].kind = "read"
Texts(r) == { sent[r][k].text : k \in 1..Len(sent[r]) }
RollbackFinished(r) ==
    \A c \in Conns : \A k \in 1..Len(queue[c]) : queue[c][k].by # r

\* C1: every `query` tool call that was given a connection sends, besides
\* BEGIN and the caller's text, a ROLLBACK on that connection and no COMMIT,
\* and once the call and its rollback have finished the caller's SQL has left
\* no persistent effect in the engine.
C1_QueryLeavesNoEffect ==
    \A r \in Reqs :
        IsCall(r, "query") /\ Done(r) /\ borrows[r] = 1 /\ RollbackFinished(r) =>
            /\ \E k \in 1..Len(sent[r]) :
                  sent[r][k].text = SQL_ROLLBACK /\ sent[r][k].conn = sent[r][1].conn
            /\ Texts(r) \subseteq {SQL_BEGIN, SQL_ROLLBACK, req[r].arguments.sql}
            /\ r \notin persisted

AllSettled == \A r \in Reqs : pc[r] \in {"idle", "done"}

\* C2: a request borrows at most one connection and has released it exactly
\* once when it ends, however it ends; when no request is being served every
\* connection of the pool is available again.
C2_BorrowReleaseBalanced ==
    /\ \A r \in Reqs :
        /\ borrows[r] <= 1
        /\ releases[r] <= borrows[r]
        /\ (client[r] # NoClient) <=> (releases[r] < borrows[r])
        /\ pc[r] \in {"idle", "done"} => releases[r] = borrows[r]
    /\ AllSettled => idle = Conns

\* Two requests of different kinds have ended after borrowing, one by a
\* rejected query and one by a failed `query` tool call, and the pool is whole.
C2_Witness ==
    \E r1 \in Reqs, r2 \in Reqs :
        /\ r1 # r2 /\ Done(r1) /\ Done(r2)
        /\ borrows[r1] = 1 /\ borrows[r2] = 1
        /\ req[r1].kind \in {"list", "read"} /\ resp[r1] = Thrown("engine")
        /\ IsCall(r2, "query") /\ resp[r2].isError
        /\ idle = Conns

\* C3: no URI that listResources returns carries a username or a password.
C3_NoCredentialsInUris ==
    \A r \in Reqs :
        req[r].kind = "list" /\ resp[r].status = "returned" =>
            \A k \in 1..Len(resp[r].resources) :
                LET u == ParseURL(resp[r].resources[k].uri)
                IN u.username = <<>> /\ u.password = <<>>

\* The address readResource has parsed the URI to.
ParsedAddress(r) ==
    IF loc[r].branch = "listing" THEN SchemaListing(loc[r].schemaName)
    ELSE IF loc[r].branch = "table"
    THEN TableResource(loc[r].schemaName, loc[r].tableName, loc[r].resourceType)
    ELSE NoAddress

\* C4: a URI that listResources emitted for an address is parsed by
\* readResource to that same address, and is not rejected.
C4_ListedUriRoundTrips ==
    \A r \in Reqs :
        IsRead(r) /\ req[r].about # NoAddress /\ pc[r] # "start" =>
            /\ ParsedAddress(r) = req[r].about
            /\ resp[r].message \notin {"Invalid URL", "Invalid resource URI",
                                       "Unknown resource type"}

SampleReturned(r) ==
    /\ IsRead(r) /\ Done(r) /\ resp[r].status = "returned"
    /\ loc[r].branch = "table" /\ loc[r].resourceType = SAMPLE_PATH

\* The rows the engine returned to the sample read of request r.
EngineRows(r) == SampleQuery(catalog, tableRows, sent[r][1].text).rows

\* C5: in the output of a sample read there is a row for each row the engine
\* returned, a field named email or phone of the engine's row is "REDACTED" in
\* it whatever its value was (null too), and no original value of such a field
\* is in the output.
C5_EmailAndPhoneRedacted ==
    \A r \in Reqs :
        SampleReturned(r) =>
            /\ Len(resp[r].rows) = Len(EngineRows(r))
            /\ \A k \in 1..Len(EngineRows(r)) :
                /\ \A f \in {"email", "phone"} \cap DOMAIN EngineRows(r)[k] :
                      f \in DOMAIN resp[r].rows[k] /\ resp[r].rows[k][f] = "REDACTED"
                /\ \A f \in DOMAIN resp[r].rows[k] :
                      resp[r].rows[k][f] \notin {"a@b.c", "555"}

\* A sample read has returned two rows, the first with a null email and a
\* phone number, the second with an email address.
C5_Witness ==
    \E r \in Reqs :
        /\ SampleReturned(r)
        /\ Len(EngineRows(r)) = 2
        /\ "email" \in DOMAIN EngineRows(r)[1] /\ EngineRows(r)[1]["email"] = Null
        /\ "phone" \in DOMAIN EngineRows(r)[1] /\ EngineRows(r)[1]["phone"] = "555"
        /\ "email" \in DOMAIN EngineRows(r)[2] /\ EngineRows(r)[2]["email"] = "a@b.c"

\* The rows the engine returned to the statistics query of describe_table.
DescribedStats(r) ==
    TableStatsQuery(catalog, tableRows, req[r].arguments.schema, req[r].arguments.table)

\* C6: describe_table returns, when its statistics query returned no row, a
\* statistics collection of exactly the one placeholder entry of three
\* "Unknown" fields, and otherwise the rows of the query unchanged.
C6_PlaceholderForNoStatistics ==
    \A r \in Reqs :
        IsCall(r, "describe_table") /\ Done(r) /\ resp[r].status = "returned"
            /\ ~resp[r].isError =>
            resp[r].statistics =
                IF DescribedStats(r) = <<>> THEN <<Placeholder>> ELSE DescribedStats(r)

RECURSIVE Count(_, _)
Count(s, t) ==
    IF s = <<>> THEN 0 ELSE (IF Head(s) = t THEN 1 ELSE 0) + Count(Tail(s), t)

\* The number of path segments of a URI (after the host, when it has one).
PathDepth(u) ==
    IF u.opaque THEN (IF u.pathname = <<>> THEN 0 ELSE Count(u.pathname, SLASH) + 1)
    ELSE Count(u.pathname, SLASH)

\* scheme://host/schema/<name> or scheme://host/<schema>/<table>/<kind>
DocumentedShape(u) ==
    /\ u.authority
    /\ u.pathname # <<>>
    /\ LET segs == Tail(Split(u.pathname)) IN
       /\ \A k \in 1..Len(segs) : segs[k] # <<>>
       /\ \/ Len(segs) = 2 /\ segs[1] = SCHEMA_PATH
          \/ Len(segs) = 3 /\ segs[3] \in {SCHEMA_PATH, SAMPLE_PATH, STATISTICS_PATH}

\* C7: readResource of a URI whose path depth is neither 2 nor 3 throws
\* "Invalid resource URI" and returns no contents, and a URI of a documented
\* shape (depth 2 or 3) is never rejected with that error.
C7_DepthDecidesAddressError ==
    \A r \in Reqs :
        IsRead(r) /\ Done(r) /\ ParseURL(req[r].uri).valid =>
            LET u == ParseURL(req[r].uri) IN
            /\ PathDepth(u) \notin {2, 3} =>
                  resp[r] = Thrown("Invalid resource URI") /\ sent[r] = <<>>
            /\ DocumentedShape(u) => resp[r].message # "Invalid resource URI"

\* C8: a tool call never throws: every failure is a result with isError set.
C8_ToolCallNeverThrows ==
    \A r \in Reqs :
        req[r].kind = "call" /\ Done(r) =>
            /\ resp[r].status = "returned"
            /\ resp[r].message # "" => resp[r].isError

\* C9: a tool call that lacks an argument its tool requires sends no
\* statement to the engine.
C9_MissingArgumentSendsNothing ==
    \A r \in Reqs :
        /\ req[r].kind = "call"
        /\ \E k \in RequiredArguments(req[r].name) : req[r].arguments[k] = Undefined
        => sent[r] = <<>>

\* C10: the sampling statement is, to the engine, one SELECT of at most 5 rows
\* from the table that the schema name and the table name of the URI identify.
C10_SampleStatementIsOneSelect ==
    \A r \in Reqs :
        IsRead(r) =>
            \A k \in 1..Len(sent[r]) :
                Head(sent[r][k].text) = "SELECT * FROM " =>
                    LET p == ParseSample(sent[r][k].text) IN
                    /\ p.ok
                    /\ p.schema = loc[r].schemaName
                    /\ p.table = loc[r].tableName
                    /\ p.limit <= LimitRows

\* The positions at which request r handed the caller's text to client.query.
SqlSent(r) == { k \in 1..Len(sent[r]) : sent[r][k].text = req[r].arguments.sql }

\* C11: in a `query` tool call the caller's text is sent only after BEGIN
\* TRANSACTION READ ONLY was sent first on the same connection by the same call
\* and resolved; when BEGIN rejects, the text is never sent and the call ends
\* with isError set.
C11_SqlOnlyAfterBegin ==
    \A r \in Reqs :
        IsCall(r, "query") =>
            /\ \A k \in SqlSent(r) :
                  /\ k = 2
                  /\ sent[r][1].text = SQL_BEGIN
                  /\ sent[r][1].conn = sent[r][k].conn
                  /\ loc[r].begin = "resolved"
            /\ loc[r].begin = "rejected" =>
                  /\ SqlSent(r) = {}
                  /\ Done(r) /\ resp[r].status = "returned" /\ resp[r].isError

\* Of two `query` calls one has had its text run after its BEGIN resolved, and
\* the other has ended in an error because its BEGIN was rejected.
C11_Witness ==
    \E r1 \in Reqs, r2 \in Reqs :
        /\ r1 # r2
        /\ IsCall(r1, "query") /\ Done(r1) /\ loc[r1].begin = "resolved"
        /\ SqlSent(r1) = {2} /\ ~resp[r1].isError
        /\ IsCall(r2, "query") /\ Done(r2) /\ loc[r2].begin = "rejected"
        /\ resp[r2].isError

\* C12: a sample read changes only the values of the fields named email or
\* phone: every output row has the field names of the engine's row, no more
\* and no fewer, and every other field keeps its value.
C12_OnlyEmailAndPhoneChange ==
    \A r \in Reqs :
        SampleReturned(r) =>
            /\ Len(resp[r].rows) = Len(EngineRows(r))
            /\ \A k \in 1..Len(EngineRows(r)) :
                /\ DOMAIN resp[r].rows[k] = DOMAIN EngineRows(r)[k]
                /\ \A f \in DOMAIN EngineRows(r)[k] \ {"email", "phone"} :
                      resp[r].rows[k][f] = EngineRows(r)[k][f]

\* Request r holds a connection and waits for the answer to its first
\* statement: nothing it sent has run yet.
AtFirstAwait(r) ==
    pc[r] \in {"list_schemas", "read_query", "query_begin", "describe_columns",
               "find_column"}

\* C13: a request never holds a connection on which the ROLLBACK of an
\* earlier `query` call is still in flight, nor one on which the transaction
\* of an earlier call is still open when the request's first statement is
\* about to run (a ROLLBACK that failed included).
C13_NoBorrowBeforeRollbackEnds ==
    \A r \in Reqs :
        client[r] # NoClient =>
            /\ \A k \in 1..Len(queue[client[r]]) : queue[client[r]][k].by = r
            /\ AtFirstAwait(r) => session[client[r]] = "idle"

====
